---- MODULE Spec2Model ----
(***************************************************************************)
(* A model of pennylane.ops.op_math.linear_combination.LinearCombination:  *)
(* the term store (coefficients, operands, wires, grouping cache), its     *)
(* simplifier, grouping computation, comparison and in-place arithmetic.   *)
(*                                                                         *)
(* Coefficients are integers counted in units of the absolute tolerance of *)
(* numpy.isclose (1e-8), so that "close to zero" is a range of values and  *)
(* not only the value 0.  An operand is the sequence of its single-wire    *)
(* factors; a factor is a record [name, wires].                            *)
(***************************************************************************)
EXTENDS Integers, Sequences, FiniteSets, TLC

VARIABLES coeffs, ops, wires, grouping, gsrc, lastOp, arg, hist, other, result, returned

vars == <<coeffs, ops, wires, grouping, gsrc, lastOp, arg, hist, other, result, returned>>

(***************************** bounds **************************************)
\* longest coefficient/operand list a store holds
MaxTerms == 2
\* largest coefficient magnitude the model follows, in multiples of 1.0
CMax == 2
\* longest list handed to simplify() in SpecSimplify
MaxSimplifyTerms == 4
\* longest store compared in SpecCompare
MaxCompareTerms == 3
\* longest coefficient or operand list handed to the constructor in SpecConstruct
MaxConstructTerms == 2
\* longest store whose wires are mapped in SpecMapWires
MaxMapTerms == 2
\* longest operand list grouped step by step in SpecGrouping
MaxGroupingTerms == 3
\* most terms of a store assembled batch by batch in SpecSparseLoop
MaxBatchTerms == 201

(***************************** values **************************************)
None == "None"
NotImplemented == "NotImplemented"
ValueError == "ValueError"
IndexError == "IndexError"

\* the grouping cache: absent (None), or a tuple of tuples of indices
NoGrouping == [present |-> FALSE, groups |-> <<>>]
Grouping(g) == [present |-> TRUE, groups |-> g]

\* an argument or a return value that is not there
NoStore == [kind |-> "none"]
AStore(st) == [kind |-> "store", store |-> st]
AnObs(o) == [kind |-> "obs", obs |-> o]

\* the object an operator returns: nothing recorded, or a new store together with
\* the list object its _ops is ("fresh": a list of its own, "self": the list of
\* the left operand, "other": the list of the right operand)
NoReturn == [kind |-> "none"]
Returned(st, list) == [kind |-> "store", store |-> st, opsList |-> list]

Abs(x) == IF x < 0 THEN -x ELSE x

\* absolute tolerance of numpy.isclose, the unit coefficients are counted in
Atol == 1

\* the coefficient 1.0 in that unit
One == 100000000

IsClose(c) == Abs(c) <= Atol

Obs(n, w) == [name |-> n, wires |-> <<w>>]

X0 == <<Obs("X", 0)>>
Z0 == <<Obs("Z", 0)>>
Y1 == <<Obs("Y", 1)>>
X0I1 == <<Obs("X", 0), Obs("I", 1)>>
X0Y1 == <<Obs("X", 0), Obs("Y", 1)>>
Y1X0 == <<Obs("Y", 1), Obs("X", 0)>>

Range(s) == {s[i] : i \in 1..Len(s)}

RemoveAt(s, k) == [i \in 1..(Len(s) - 1) |-> IF i < k THEN s[i] ELSE s[i + 1]]

RECURSIVE SetToSortedSeq(_)
SetToSortedSeq(S) ==
  IF S = {} THEN <<>>
  ELSE LET m == CHOOSE x \in S : \A y \in S : x <= y
       IN <<m>> \o SetToSortedSeq(S \ {m})

(************************ operands (pennylane.operation) *******************)
IsIdentity(f) == f.name = "I"

NonIdentityObs(op) == SelectSeq(op, LAMBDA f : ~IsIdentity(f))

\* Tensor._obs_data: the set of (name, wires) of the non-identity factors
ObsData(op) == {<<f.name, f.wires>> : f \in Range(NonIdentityObs(op))}

\* Tensor.compare
TensorCompare(a, b) == ObsData(a) = ObsData(b)

RECURSIVE OpWiresFrom(_, _)
OpWiresFrom(op, seen) ==
  IF op = <<>> THEN <<>>
  ELSE LET ws == SelectSeq(Head(op).wires, LAMBDA w : w \notin Range(seen))
       IN ws \o OpWiresFrom(Tail(op), seen \o ws)

\* Operator.wires of a tensor: the wires of its factors, first occurrence first
OpWires(op) == OpWiresFrom(op, <<>>)

\* Tensor.prune: identity factors removed; an all-identity tensor becomes one Identity
Prune(op) ==
  IF NonIdentityObs(op) = <<>>
  THEN <<[name |-> "I", wires |-> OpWires(op)]>>
  ELSE NonIdentityObs(op)

\* Wires.all_wires(..., sort=True)
AllWires(os) == SetToSortedSeq(UNION {Range(OpWires(os[i])) : i \in 1..Len(os)})

(****************************** simplify ***********************************)
\* FindInd looking for an equal operand instead of calling op.compare(o)
FindIndEqual(newOps, op) ==
  IF \E j \in 1..Len(newOps) : op = newOps[j]
  THEN CHOOSE j \in 1..Len(newOps) : op = newOps[j] /\ \A k \in 1..(j - 1) : op # newOps[k]
  ELSE 0

\* next((j for j, o in enumerate(new_ops) if op.compare(o)), None); 0 stands for None
FindInd(newOps, op) ==
  IF \E j \in 1..Len(newOps) : TensorCompare(op, newOps[j])
  THEN CHOOSE j \in 1..Len(newOps) :
         /\ TensorCompare(op, newOps[j])
         /\ \A k \in 1..(j - 1) : ~TensorCompare(op, newOps[k])
  ELSE 0

\* SimplifyTerm with "del new_ops[ind]" forgotten
SimplifyTermKeepsOp(acc, c, op) ==
  LET ind == FindInd(acc.ops, op) IN
  IF ind # 0
  THEN LET summed == [acc.coeffs EXCEPT ![ind] = @ + c] IN
       IF IsClose(summed[ind])
       THEN [coeffs |-> RemoveAt(summed, ind), ops |-> acc.ops]
       ELSE [coeffs |-> summed, ops |-> acc.ops]
  ELSE [coeffs |-> Append(acc.coeffs, c), ops |-> Append(acc.ops, Prune(op))]

\* one iteration of the loop of simplify() on term (c, op)
SimplifyTerm(acc, c, op) ==
  LET ind == FindInd(acc.ops, op) IN
  IF ind # 0
  THEN LET summed == [acc.coeffs EXCEPT ![ind] = @ + c] IN
       IF IsClose(summed[ind])
       THEN [coeffs |-> RemoveAt(summed, ind), ops |-> RemoveAt(acc.ops, ind)]
       ELSE [coeffs |-> summed, ops |-> acc.ops]
  ELSE [coeffs |-> Append(acc.coeffs, c), ops |-> Append(acc.ops, Prune(op))]

RECURSIVE SimplifyLoop(_, _, _, _)
SimplifyLoop(cs, os, i, acc) ==
  IF i > Len(os) THEN acc
  ELSE SimplifyLoop(cs, os, i + 1, SimplifyTerm(acc, cs[i], os[i]))

\* the new coefficient and operand lists simplify() builds
SimplifyTerms(cs, os) == SimplifyLoop(cs, os, 1, [coeffs |-> <<>>, ops |-> <<>>])

(************************ grouping (qml.pauli) *****************************)
GroupingTypes == {"qwc", "commuting", "anticommuting"}

\* the Pauli letter a word carries on wire w
PauliAt(op, w) ==
  IF \E f \in Range(NonIdentityObs(op)) : w \in Range(f.wires)
  THEN (CHOOSE f \in Range(NonIdentityObs(op)) : w \in Range(f.wires)).name
  ELSE "I"

\* the wires on which two words carry different non-identity letters
Clashes(a, b) ==
  {w \in Range(OpWires(a)) \cap Range(OpWires(b)) :
     /\ PauliAt(a, w) # "I"
     /\ PauliAt(b, w) # "I"
     /\ PauliAt(a, w) # PauliAt(b, w)}

\* the binary relation between Pauli words a grouping type stands for
Compatible(gtype, a, b) ==
  CASE gtype = "qwc" -> Clashes(a, b) = {}
    [] gtype = "commuting" -> Cardinality(Clashes(a, b)) % 2 = 0
    [] gtype = "anticommuting" -> Cardinality(Clashes(a, b)) % 2 = 1

\* qml.pauli.are_identical_pauli_words
AreIdenticalPauliWords(a, b) == ObsData(a) = ObsData(b)

Perms(n) == {p \in [1..n -> 1..n] : \A i, j \in 1..n : i # j => p[i] # p[j]}

\* the list p cut after the positions of C
Split(p, C) ==
  LET ends == SetToSortedSeq(C \cup {Len(p)})
  IN [k \in 1..Len(ends) |->
        SubSeq(p, (IF k = 1 THEN 1 ELSE ends[k - 1] + 1), ends[k])]

\* qml.pauli.group_ops: any ordered partition of the given words into groups of
\* pairwise compatible words; every given word is returned once per occurrence
GroupOps(os, gtype) ==
  LET n == Len(os)
      cand == {Split(p, C) : p \in Perms(n), C \in SUBSET (1..(n - 1))}
      ok(g) == \A k \in 1..Len(g) : \A i, j \in 1..Len(g[k]) :
                 i # j => Compatible(gtype, os[g[k][i]], os[g[k][j]])
  IN {[k \in 1..Len(g) |-> [j \in 1..Len(g[k]) |-> Prune(os[g[k][j]])]] :
        g \in {h \in cand : ok(h)}}

\* position of the first remaining operand identical to pauli_word; 0 when none is
FindWord(rem, word) ==
  IF \E k \in 1..Len(rem) : AreIdenticalPauliWords(word, rem[k])
  THEN CHOOSE k \in 1..Len(rem) :
         /\ AreIdenticalPauliWords(word, rem[k])
         /\ \A m \in 1..(k - 1) : ~AreIdenticalPauliWords(word, rem[m])
  ELSE 0

\* TakeWord taking every remaining operand identical to the word, not the first only
TakeWordAll(st, word) ==
  LET keep == {i \in 1..Len(st.ops) : ~AreIdenticalPauliWords(word, st.ops[i])}
      pick(s, S) == [i \in 1..Cardinality(S) |-> s[SetToSortedSeq(S)[i]]]
  IN [ops |-> pick(st.ops, keep),
      avail |-> pick(st.avail, keep),
      group |-> st.group \o pick(st.avail, (1..Len(st.ops)) \ keep)]

\* TakeWord with the two pop() calls forgotten
TakeWordNoPop(st, word) ==
  LET k == FindWord(st.ops, word) IN
  IF k = 0 THEN st
  ELSE [ops |-> st.ops, avail |-> st.avail, group |-> Append(st.group, st.avail[k])]

\* the body of "for pauli_word in partition": st = [ops, avail, group]
TakeWord(st, word) ==
  LET k == FindWord(st.ops, word) IN
  IF k = 0 THEN st
  ELSE [ops |-> RemoveAt(st.ops, k),
        avail |-> RemoveAt(st.avail, k),
        group |-> Append(st.group, st.avail[k])]

RECURSIVE PartitionLoop(_, _)
PartitionLoop(words, st) ==
  IF words = <<>> THEN st
  ELSE PartitionLoop(Tail(words), TakeWord(st, Head(words)))

RECURSIVE GroupsLoop(_, _, _, _)
GroupsLoop(groups, rem, avail, indices) ==
  IF groups = <<>> THEN indices
  ELSE LET st == PartitionLoop(Head(groups), [ops |-> rem, avail |-> avail, group |-> <<>>])
       IN GroupsLoop(Tail(groups), st.ops, st.avail, Append(indices, st.group))

\* _compute_grouping_indices after the call of the partitioner; indices count from 0
ComputeGroupingIndices(os, observable_groups) ==
  GroupsLoop(observable_groups, os, [i \in 1..Len(os) |-> i - 1], <<>>)

\* the groupings _compute_grouping_indices may return for a list of operands
GroupingResults(os, gtype) ==
  {ComputeGroupingIndices(os, g) : g \in GroupOps(os, gtype)}

(****************************** the store **********************************)
Store(cs, os, ws, g) == [coeffs |-> cs, ops |-> os, wires |-> ws, grouping |-> g]

Self == Store(coeffs, ops, wires, grouping)

\* Simplify with the reset of the grouping indices forgotten
SimplifyKeepsGrouping(st) ==
  LET t == SimplifyTerms(st.coeffs, st.ops)
  IN Store(t.coeffs, t.ops, AllWires(t.ops), st.grouping)

\* LinearCombination.simplify
Simplify(st) ==
  LET t == SimplifyTerms(st.coeffs, st.ops)
  IN Store(t.coeffs, t.ops, AllWires(t.ops), NoGrouping)

\* LinearCombination.__init__ up to the grouping request: a store without grouping
Construct(cs, os, simplify) ==
  LET st == Store(cs, os, AllWires(os), NoGrouping)
  IN IF simplify THEN Simplify(st) ELSE st

\* LinearCombination._build_pauli_rep, called last by __init__: every operand of
\* the model has a Pauli representation, so the sum is started from coeffs[0] *
\* op_pauli_rep[0], which raises IndexError when the store holds no term
BuildPauliRepRaises(st) == Len(st.ops) = 0

\* LinearCombination.__init__ raises
ConstructRaises(cs, os, simplify) == BuildPauliRepRaises(Construct(cs, os, simplify))

\* LinearCombination.__mul__ with an int or float
Mul(st, a) == Construct([i \in 1..Len(st.coeffs) |-> a * st.coeffs[i]], st.ops, FALSE)

\* LinearCombination.__mul__ with an int or float raises
MulRaises(st, a) ==
  ConstructRaises([i \in 1..Len(st.coeffs) |-> a * st.coeffs[i]], st.ops, FALSE)

\* Observable.__mul__ with an int or float: the one-term store a * O
ObsMul(o, a) == Construct(<<a * One>>, <<o>>, FALSE)

\* LinearCombination.__iadd__ with a LinearCombination
IAddStoreTo(st, H) ==
  Simplify(Store(st.coeffs \o H.coeffs, st.ops \o H.ops, st.wires, st.grouping))

\* LinearCombination.__iadd__ with a Tensor or Observable
IAddObsTo(st, o) ==
  Simplify(Store(Append(st.coeffs, One), Append(st.ops, o), st.wires, st.grouping))

\* IMulTo resetting the grouping indices as the other in-place operations do
IMulToResetsGrouping(st, a) ==
  Store([i \in 1..Len(st.coeffs) |-> a * st.coeffs[i]], st.ops, st.wires, NoGrouping)

\* LinearCombination.__imul__ with an int or float
IMulTo(st, a) ==
  Store([i \in 1..Len(st.coeffs) |-> a * st.coeffs[i]], st.ops, st.wires, st.grouping)

\* LinearCombination._obs_data
StoreObsData(st) ==
  {<<st.coeffs[i],
     IF Len(st.ops[i]) >= 2
     THEN ObsData(st.ops[i])
     ELSE {<<st.ops[i][1].name, st.ops[i][1].wires>>}>> : i \in 1..Len(st.ops)}

\* LinearCombination.compare with a LinearCombination: both stores are simplified
CompareStores(st, H) ==
  LET s1 == Simplify(st)
      s2 == Simplify(H)
  IN [self |-> s1, other |-> AStore(s2), ret |-> (StoreObsData(s1) = StoreObsData(s2))]

\* LinearCombination.compare with a Tensor or Observable
CompareObsTo(st, o) ==
  LET s1 == Simplify(st)
  IN [self |-> s1, other |-> AnObs(o), ret |-> (StoreObsData(s1) = {<<One, ObsData(o)>>})]

\* ValidGrouping with the range test off by one
ValidGroupingOffByOne(value, n) ==
  \A k \in 1..Len(value) : \A j \in 1..Len(value[k]) : value[k][j] \in 0..n

\* the grouping setter's test of its value
ValidGrouping(value, n) ==
  \A k \in 1..Len(value) : \A j \in 1..Len(value[k]) : value[k][j] \in 0..(n - 1)

InBounds(st) ==
  /\ Len(st.coeffs) <= MaxTerms
  /\ \A i \in 1..Len(st.coeffs) : Abs(st.coeffs[i]) <= CMax * One

(****************************** inputs *************************************)
OpVocab == {X0, X0I1, Z0, Y1}

CoeffVals == {-One, One}

SeqsUpTo(S, n) == UNION {[1..k -> S] : k \in 0..n}

\* the stores handed to an operation as its right-hand side
ArgStores ==
  { Simplify(Construct(<<One, -One>>, <<X0, X0>>, FALSE)),
    Construct(<<One>>, <<X0I1>>, FALSE),
    Construct(<<-One, One>>, <<Z0, X0>>, FALSE) }

\* the observables handed to an operation as its right-hand side
ArgObs == {X0, Y1}

ScalarArgs == {-1, 0, 2}

\* the values assigned through the grouping setter
GroupValues ==
  { << <<0>> >>, << <<0, 1>> >>, << <<1>>, <<0>> >>, << <<0, 0>> >>,
    << <<0, 2>>, <<1>> >>, << <<2>> >> }

(****************************** actions ************************************)
Put(st, gs, name, a, oth, res) ==
  /\ coeffs' = st.coeffs
  /\ ops' = st.ops
  /\ wires' = st.wires
  /\ grouping' = st.grouping
  /\ gsrc' = gs
  /\ lastOp' = name
  /\ arg' = a
  /\ other' = oth
  /\ result' = res
  /\ UNCHANGED <<hist, returned>>

\* the state after LinearCombination(coeffs, ops, simplify, grouping_type)
Init ==
  \E cs \in SeqsUpTo(CoeffVals, MaxTerms), os \in SeqsUpTo(OpVocab, MaxTerms),
     simplify \in BOOLEAN, gtype \in GroupingTypes \cup {None} :
    /\ Len(cs) = Len(os)
    /\ ~ConstructRaises(cs, os, simplify)
    /\ LET st == Construct(cs, os, simplify) IN
       /\ coeffs = st.coeffs
       /\ ops = st.ops
       /\ wires = st.wires
       /\ IF gtype = None
          THEN grouping = NoGrouping /\ gsrc = "none"
          ELSE /\ \E g \in GroupingResults(st.ops, gtype) : grouping = Grouping(g)
               /\ gsrc = "computed"
    /\ lastOp = "init"
    /\ arg = 0
    /\ hist = <<>>
    /\ other = NoStore
    /\ result = None
    /\ returned = NoReturn

DoSimplify ==
  LET st == Simplify(Self)
  IN Put(st, "none", "simplify", 0, NoStore, None)

IAddZero == Put(Self, gsrc, "iadd_zero", 0, NoStore, None)

IAddStore ==
  \E H \in ArgStores \cup {Self} :
    LET st == IAddStoreTo(Self, H)
    IN InBounds(st) /\ Put(st, "none", "iadd", 0, NoStore, None)

IAddObs ==
  \E o \in ArgObs :
    LET st == IAddObsTo(Self, o)
    IN InBounds(st) /\ Put(st, "none", "iadd", 0, NoStore, None)

IAddNotImplemented == Put(Self, gsrc, "iadd_unsupported", 0, NoStore, NotImplemented)

ISubStore ==
  \E H \in ArgStores \cup {Self} :
    LET st == IAddStoreTo(Self, Mul(H, -1))
    IN ~MulRaises(H, -1) /\ InBounds(st) /\ Put(st, "none", "isub", 0, NoStore, None)

\* S -= H with a store H that holds no term: H.__mul__(-1) raises before S is touched
ISubIndexError ==
  \E H \in ArgStores \cup {Self} :
    MulRaises(H, -1) /\ Put(Self, gsrc, "isub_error", 0, NoStore, IndexError)

ISubObs ==
  \E o \in ArgObs :
    LET st == IAddStoreTo(Self, ObsMul(o, -1))
    IN InBounds(st) /\ Put(st, "none", "isub", 0, NoStore, None)

IMul ==
  \E a \in ScalarArgs :
    LET st == IMulTo(Self, a)
    IN InBounds(st) /\ Put(st, gsrc, "imul", a, NoStore, None)

IMulNotImplemented == Put(Self, gsrc, "imul_unsupported", 0, NoStore, NotImplemented)

CompareStore ==
  \E H \in ArgStores :
    LET r == CompareStores(Self, H)
    IN Put(r.self, "none", "compare", 0, r.other, IF r.ret THEN "True" ELSE "False")

CompareObs ==
  \E o \in ArgObs :
    LET r == CompareObsTo(Self, o)
    IN Put(r.self, "none", "compare", 0, r.other, IF r.ret THEN "True" ELSE "False")

\* CompareValueError raising only after the store was simplified
CompareValueErrorAfterSimplify ==
  Put(Simplify(Self), "none", "compare_error", 0, NoStore, ValueError)

\* compare with an argument that is no LinearCombination, Tensor or Observable
CompareValueError == Put(Self, gsrc, "compare_error", 0, NoStore, ValueError)

ComputeGrouping ==
  \E gtype \in GroupingTypes :
    \E g \in GroupingResults(ops, gtype) :
      Put(Store(coeffs, ops, wires, Grouping(g)), "computed", "compute_grouping", 0, NoStore, None)

SetGrouping ==
  \E value \in GroupValues :
    /\ ValidGrouping(value, Len(ops))
    /\ Put(Store(coeffs, ops, wires, Grouping(value)), "set", "setter", 0, NoStore, None)

SetGroupingValueError ==
  \E value \in GroupValues :
    /\ ~ValidGrouping(value, Len(ops))
    /\ Put(Self, gsrc, "setter_error", 0, NoStore, ValueError)

\* _unflatten(*_flatten()): a new store from the flattened data and metadata
Unflatten ==
  /\ ~ConstructRaises(coeffs, ops, FALSE)
  /\ Put(Store(coeffs, ops, AllWires(ops), grouping), gsrc, "unflatten", 0, NoStore, None)

\* _unflatten of a store that holds no term: the constructor raises
UnflattenIndexError ==
  /\ ConstructRaises(coeffs, ops, FALSE)
  /\ Put(Self, gsrc, "unflatten_error", 0, NoStore, IndexError)

Next ==
  \/ DoSimplify
  \/ IAddZero
  \/ IAddStore
  \/ IAddObs
  \/ IAddNotImplemented
  \/ ISubStore
  \/ ISubIndexError
  \/ ISubObs
  \/ IMul
  \/ IMulNotImplemented
  \/ CompareStore
  \/ CompareObs
  \/ CompareValueError
  \/ ComputeGrouping
  \/ SetGrouping
  \/ SetGroupingValueError
  \/ Unflatten
  \/ UnflattenIndexError

Spec == Init /\ [][Next]_vars

(****************************** properties *********************************)
RECURSIVE Flatten(_)
Flatten(g) == IF g = <<>> THEN <<>> ELSE Head(g) \o Flatten(Tail(g))

\* every index 0..n-1 occurs exactly once in the groups of g
ExactCover(g, n) == Len(Flatten(g)) = n /\ Range(Flatten(g)) = 0..(n - 1)

IndicesInRange(g, n) == Range(Flatten(g)) \subseteq 0..(n - 1)

\* C1: in every reachable state the coefficient sequence and the operand sequence
\* of the store have the same length.
C1_SameLength == Len(coeffs) = Len(ops)

C1_Witness == lastOp = "isub" /\ Len(ops) = 1 /\ Len(coeffs) = 1

\* C7: the grouping computed by compute_grouping, or at construction, holds every
\* term index 0..N-1 exactly once, also when operands repeat the same Pauli word.
C7_GroupingCoversTerms ==
  (lastOp \in {"init", "compute_grouping"} /\ grouping.present)
    => ExactCover(grouping.groups, Len(ops))

C7_Witness ==
  /\ lastOp = "compute_grouping"
  /\ Len(ops) = 2
  /\ AreIdenticalPauliWords(ops[1], ops[2])
  /\ grouping.present

\* C8 as stated: whenever the grouping cache is present, every index 0..N-1
\* appears in exactly one group.
C8_Original == grouping.present => ExactCover(grouping.groups, Len(ops))

\* C8 as amended: whenever the grouping cache is present, every index it holds
\* lies in 0..N-1; a cache that compute_grouping or the constructor produced (and
\* the setter has not replaced) holds every index 0..N-1 exactly once.
C8_CacheInRange ==
  grouping.present =>
    /\ IndicesInRange(grouping.groups, Len(ops))
    /\ gsrc = "computed" => ExactCover(grouping.groups, Len(ops))

C8_Witness ==
  /\ lastOp = "setter"
  /\ Len(ops) = 2
  /\ grouping = Grouping(<< <<0, 0>> >>)

\* C9: after simplify, in-place add of a store or observable and in-place
\* subtract the grouping cache is absent; an absent cache becomes present only
\* through compute_grouping or the setter; and no step that changes the operand
\* sequence leaves a cache present.
C9_CacheInvalidated ==
  /\ [](lastOp \in {"simplify", "iadd", "isub"} => ~grouping.present)
  /\ [][(~grouping.present /\ grouping'.present)
          => lastOp' \in {"compute_grouping", "setter"}]_vars
  /\ [][ops' # ops => ~grouping'.present]_vars

C9_Witness == lastOp = "iadd" /\ ~grouping.present /\ Len(ops) = 2

\* C10: S *= a with an int or float a multiplies every coefficient by a and
\* leaves operands, wires and the grouping cache as they were.
C10_ScaleFrame ==
  [][lastOp' = "imul" =>
       /\ coeffs' = [i \in 1..Len(coeffs) |-> arg' * coeffs[i]]
       /\ ops' = ops
       /\ wires' = wires
       /\ grouping' = grouping]_vars

C10_Witness ==
  /\ lastOp = "imul"
  /\ arg = 2
  /\ Len(coeffs) = 2
  /\ coeffs[1] # 0
  /\ grouping.present

(************************ simplify as a function ***************************)
SimplifyVocab == {X0I1, X0Y1, Y1X0}

\* 1.0, -1.0, 0.0 and a value of the size of the tolerance of isclose
SimplifyCoeffs == {-One, 0, One, -1}

SimplifyInit ==
  \E n \in 1..MaxSimplifyTerms :
    \E cs \in [1..n -> SimplifyCoeffs], os \in [1..n -> SimplifyVocab] :
      LET st == Construct(cs, os, FALSE) IN
      /\ coeffs = st.coeffs
      /\ ops = st.ops
      /\ wires = st.wires
      /\ grouping = st.grouping
      /\ gsrc = "none"
      /\ lastOp = "init"
      /\ arg = 0
      /\ hist = <<>>
      /\ other = NoStore
      /\ result = None
      /\ returned = NoReturn

\* S.simplify(), keeping the store it was called on in hist
SimplifyStep ==
  /\ Len(hist) < 2
  /\ LET st == Simplify(Self) IN
     /\ coeffs' = st.coeffs
     /\ ops' = st.ops
     /\ wires' = st.wires
     /\ grouping' = st.grouping
  /\ hist' = Append(hist, Self)
  /\ lastOp' = "simplify"
  /\ UNCHANGED <<gsrc, arg, other, result, returned>>

SpecSimplify == SimplifyInit /\ [][SimplifyStep]_vars

RECURSIVE GroupSumFrom(_, _, _, _)
GroupSumFrom(cs, os, op, i) ==
  IF i > Len(os) THEN 0
  ELSE (IF TensorCompare(os[i], op) THEN cs[i] ELSE 0) + GroupSumFrom(cs, os, op, i + 1)

\* the arithmetic sum of the coefficients of the terms structurally equal to op
GroupSum(cs, os, op) == GroupSumFrom(cs, os, op, 1)

\* the position of the first operand of os structurally equal to op
FirstOccurrence(os, op) ==
  CHOOSE k \in 1..Len(os) :
    /\ TensorCompare(os[k], op)
    /\ \A m \in 1..(k - 1) : ~TensorCompare(os[m], op)

\* C2: after simplify no two terms have structurally equal operands, and every
\* surviving coefficient is the sum of the coefficients of the input terms whose
\* operand is structurally equal to the surviving operand.
C2_Original ==
  Len(hist) = 1 =>
    /\ \A i, j \in 1..Len(ops) : i # j => ~TensorCompare(ops[i], ops[j])
    /\ \A i \in 1..Len(ops) : coeffs[i] = GroupSum(hist[1].coeffs, hist[1].ops, ops[i])

\* C3: simplify drops every term whose summed coefficient is close to zero:
\* whatever the input store, no term of the simplified store has a zero coefficient.
C3_Original == Len(hist) = 1 => \A i \in 1..Len(ops) : coeffs[i] # 0

\* C4: after simplify the surviving terms stand in the order in which their
\* groups first occur in the original operand sequence (stated for the results
\* that hold no coefficient close to zero).
C4_Original ==
  (Len(hist) = 1 /\ \A i \in 1..Len(ops) : ~IsClose(coeffs[i])) =>
    \A i, j \in 1..Len(ops) :
      i < j => FirstOccurrence(hist[1].ops, ops[i]) < FirstOccurrence(hist[1].ops, ops[j])

\* C5: a second simplify() leaves coefficients, operands, wires and the number of
\* terms as the first call left them.
C5_SimplifyIdempotent ==
  Len(hist) = 2 =>
    /\ coeffs = hist[2].coeffs
    /\ ops = hist[2].ops
    /\ wires = hist[2].wires
    /\ Len(ops) = Len(hist[2].ops)

C5_Witness ==
  /\ Len(hist) = 2
  /\ Len(hist[1].ops) = 4
  /\ Len(ops) = 2
  /\ hist[1].ops[2] = X0I1
  /\ hist[1].ops[3] = Y1X0
  /\ \E i \in 1..2 : coeffs[i] = 0

(************************ compare as a function ****************************)
CompareCoeffs == {-One, 0, One}

\* the store st with its terms in the order p
Permuted(st, p) ==
  Construct([i \in 1..Len(p) |-> st.coeffs[p[i]]], [i \in 1..Len(p) |-> st.ops[p[i]]], FALSE)

IsPermutationOf(a, b) ==
  /\ Len(a.ops) = Len(b.ops)
  /\ \E p \in Perms(Len(a.ops)) : b.coeffs = Permuted(a, p).coeffs /\ b.ops = Permuted(a, p).ops

CompareInit ==
  \E n \in 1..MaxCompareTerms :
    \E cs \in [1..n -> CompareCoeffs], os \in [1..n -> SimplifyVocab] :
      LET st == Construct(cs, os, FALSE) IN
      /\ coeffs = st.coeffs
      /\ ops = st.ops
      /\ wires = st.wires
      /\ grouping = st.grouping
      /\ gsrc = "none"
      /\ lastOp = "init"
      /\ arg = 0
      /\ hist = <<>>
      /\ \E T \in {Permuted(st, p) : p \in Perms(n)} \cup ArgStores : other = AStore(T)
      /\ result = None
      /\ returned = NoReturn

\* S.compare(T), keeping S and T as they were before the call in hist
CompareStep ==
  /\ lastOp = "init"
  /\ LET r == CompareStores(Self, other.store) IN
     /\ coeffs' = r.self.coeffs
     /\ ops' = r.self.ops
     /\ wires' = r.self.wires
     /\ grouping' = r.self.grouping
     /\ other' = r.other
     /\ result' = IF r.ret THEN "True" ELSE "False"
  /\ hist' = <<Self, other.store>>
  /\ lastOp' = "compare"
  /\ UNCHANGED <<gsrc, arg, returned>>

SpecCompare == CompareInit /\ [][CompareStep]_vars

\* the collection of (coefficient, set of non-identity factors) pairs of a store
PairBag(st) ==
  LET pairs == [i \in 1..Len(st.ops) |-> <<st.coeffs[i], ObsData(st.ops[i])>>]
  IN [x \in Range(pairs) |-> Cardinality({i \in 1..Len(pairs) : pairs[i] = x})]

\* C6: compare(S, S') is True for every permutation S' of the terms of S, and
\* compare of two stores is True exactly when, after simplifying each, their
\* collections of (coefficient, set of non-identity factors) pairs are equal.
C6_Original ==
  lastOp = "compare" =>
    /\ IsPermutationOf(hist[1], hist[2]) => result = "True"
    /\ result = "True" <=> PairBag(Self) = PairBag(other.store)

(******************** the grouping setter as a function ********************)
\* a value handed to the setter: an iterable of groups or some other object; a
\* group is an iterable of indices or some other object
SetterGroup(items) == [iterable |-> TRUE, items |-> items]
NotIterable == [iterable |-> FALSE, items |-> <<>>]
SetterValue(gs) == [iterable |-> TRUE, groups |-> gs]
NotIterableValue == [iterable |-> FALSE, groups |-> <<>>]

\* a tuple of tuples of indices as a setter value
PlainValue(g) == SetterValue([k \in 1..Len(g) |-> SetterGroup(g[k])])

\* the groups of a setter value as tuples of indices
Items(value) == [k \in 1..Len(value.groups) |-> value.groups[k].items]

\* the test of the setter: not iterable, a group not iterable, an index out of range
SetterRaises(value, n) ==
  \/ ~value.iterable
  \/ \E k \in 1..Len(value.groups) : ~value.groups[k].iterable
  \/ ~ValidGrouping(Items(value), n)

\* the setter assigning before it tests
SetterToAssignsFirst(st, value) ==
  [store |-> Store(st.coeffs, st.ops, st.wires, Grouping(Items(value))),
   ret |-> IF SetterRaises(value, Len(st.ops)) THEN ValueError ELSE None]

\* LinearCombination.grouping_indices (setter)
SetterTo(st, value) ==
  IF SetterRaises(value, Len(st.ops))
  THEN [store |-> st, ret |-> ValueError]
  ELSE [store |-> Store(st.coeffs, st.ops, st.wires, Grouping(Items(value))), ret |-> None]

ASetterValue(v) == [kind |-> "value", value |-> v]

SetterValues ==
  {PlainValue(g) : g \in GroupValues \cup {<< <<-1>> >>, <<>>}}
    \cup {NotIterableValue, SetterValue(<<SetterGroup(<<0>>), NotIterable>>)}

SetterInit ==
  \E cs \in SeqsUpTo(CoeffVals, MaxTerms), os \in SeqsUpTo(OpVocab, MaxTerms),
     gtype \in GroupingTypes \cup {None}, v \in SetterValues :
    /\ Len(cs) = Len(os)
    /\ ~ConstructRaises(cs, os, FALSE)
    /\ LET st == Construct(cs, os, FALSE) IN
       /\ coeffs = st.coeffs
       /\ ops = st.ops
       /\ wires = st.wires
       /\ IF gtype = None
          THEN grouping = NoGrouping /\ gsrc = "none"
          ELSE /\ \E g \in GroupingResults(st.ops, gtype) : grouping = Grouping(g)
               /\ gsrc = "computed"
    /\ lastOp = "init"
    /\ arg = 0
    /\ hist = <<>>
    /\ other = ASetterValue(v)
    /\ result = None
    /\ returned = NoReturn

\* S.grouping_indices = value, accepted
SetterAccept ==
  /\ lastOp = "init"
  /\ LET r == SetterTo(Self, other.value) IN
     /\ r.ret = None
     /\ Put(r.store, "set", "setter", 0, other, r.ret)

\* S.grouping_indices = value, refused
SetterReject ==
  /\ lastOp = "init"
  /\ LET r == SetterTo(Self, other.value) IN
     /\ r.ret = ValueError
     /\ Put(r.store, gsrc, "setter_error", 0, other, r.ret)

SpecSetter == SetterInit /\ [][SetterAccept \/ SetterReject]_vars

\* some index of the value lies outside [0, n)
SomeIndexOutOfRange(value, n) ==
  \E k \in 1..Len(value.groups) :
    \E j \in 1..Len(value.groups[k].items) :
      value.groups[k].items[j] < 0 \/ value.groups[k].items[j] >= n

\* C11: the setter raises ValueError when the value or one of its groups is not
\* iterable or an index lies outside [0, N), and then leaves the stored grouping
\* (and the terms) as they were; otherwise it stores the same groups in the same
\* order, whatever operands they put together.
C11_SetterChecksRange ==
  [][LET v == other.value
         bad == \/ ~v.iterable
                \/ \E k \in 1..Len(v.groups) : ~v.groups[k].iterable
                \/ SomeIndexOutOfRange(v, Len(ops))
     IN /\ coeffs' = coeffs /\ ops' = ops /\ wires' = wires
        /\ IF bad
           THEN result' = ValueError /\ grouping' = grouping
           ELSE result' = None /\ grouping' = Grouping(Items(v))]_vars

C11_Witness ==
  /\ lastOp = "setter_error"
  /\ grouping.present
  /\ other.value = PlainValue(<< <<0, 2>>, <<1>> >>)

(***************************** compare, further ****************************)
\* C12: S.compare(T) leaves the coefficients, operands, wires and grouping cache
\* of S and of T as they were before the call.
C12_Original ==
  lastOp = "compare" => Self = hist[1] /\ other.store = hist[2]

(******************** arithmetic that returns a new store ******************)
\* most terms of a store handed to an arithmetic operator
MaxArithTerms == 2

Z2 == <<Obs("Z", 2)>>

\* the right operand of an operator when it is a number or another Python object
AScalar(t) == [kind |-> "scalar", type |-> t]

\* isinstance(a, (int, float))
IsIntOrFloat(t) == t \in {"int", "float"}

\* isinstance(H, numbers.Number)
IsNumber(t) == t \in {"int", "float", "complex"}

\* a copy that hands back the list it was given
ListAlias(list) == list

\* ops.copy(), copy(coeffs), list(ops): a new list object with the same elements
ListCopy(list) == "fresh"

\* a list object changed in place by extend or append: the store whose _ops is
\* that object sees the new elements
ExtendList(st, list, os) ==
  IF list = "self" THEN Store(st.coeffs, st.ops \o os, st.wires, st.grouping) ELSE st

ExtendOther(oth, list, os) ==
  IF list = "other" /\ oth.kind = "store"
  THEN AStore(Store(oth.store.coeffs, oth.store.ops \o os, oth.store.wires, oth.store.grouping))
  ELSE oth

\* qml.dot(coeffs, ops, simplify=...): the store LinearCombination(coeffs, ops, simplify)
Dot(cs, os, simplify) == Construct(cs, os, simplify)

DotRaises(cs, os, simplify) == ConstructRaises(cs, os, simplify)

\* the list object that is _ops of the store built from the list object `list`:
\* list(ops) at construction, replaced by the new_ops of simplify
DotList(list, simplify) == IF simplify THEN "fresh" ELSE ListCopy(list)

\* what an operator leaves behind: the left operand, the right operand, the kind
\* of result ("store", "self", NotImplemented, ValueError, IndexError) and the
\* returned store
Outcome(st, oth, res, ret) == [self |-> st, other |-> oth, result |-> res, returned |-> ret]

DotOutcome(st, oth, cs, os, list, simplify) ==
  IF DotRaises(cs, os, simplify)
  THEN Outcome(st, oth, IndexError, NoReturn)
  ELSE Outcome(st, oth, "store", Returned(Dot(cs, os, simplify), DotList(list, simplify)))

\* LinearCombination.__add__ with a LinearCombination
AddStores(st, H) ==
  LET list == ListCopy("self")
  IN DotOutcome(ExtendList(st, list, H.ops), AStore(H),
                st.coeffs \o H.coeffs, st.ops \o H.ops, list, TRUE)

\* LinearCombination.__add__ with a Tensor or Observable
AddObs(st, o) ==
  LET list == ListCopy("self")
  IN DotOutcome(ExtendList(st, list, <<o>>), AnObs(o),
                Append(st.coeffs, One), Append(st.ops, o), list, TRUE)

\* __add__ with a number treating zero as any other number
AddScalarNoIdentity(st, t, a) == Outcome(st, AScalar(t), NotImplemented, NoReturn)

\* LinearCombination.__add__ / __radd__ / __iadd__ with anything else: the literal
\* zero returns self, every other object NotImplemented
AddScalar(st, t, a) ==
  IF IsNumber(t) /\ a = 0
  THEN Outcome(st, AScalar(t), "self", NoReturn)
  ELSE Outcome(st, AScalar(t), NotImplemented, NoReturn)

\* LinearCombination.__mul__ / __rmul__
MulScalar(st, t, a) ==
  IF IsIntOrFloat(t)
  THEN DotOutcome(st, AScalar(t), [i \in 1..Len(st.coeffs) |-> a * st.coeffs[i]], st.ops,
                  ListCopy("self"), FALSE)
  ELSE Outcome(st, AScalar(t), NotImplemented, NoReturn)

\* LinearCombination.__imul__
IMulScalar(st, t, a) ==
  IF IsIntOrFloat(t)
  THEN Outcome(IMulTo(st, a), AScalar(t), "self", NoReturn)
  ELSE Outcome(st, AScalar(t), NotImplemented, NoReturn)

\* LinearCombination.__sub__ with a LinearCombination: self + (-1 * H)
SubStores(st, H) ==
  IF MulRaises(H, -1)
  THEN Outcome(st, AStore(H), IndexError, NoReturn)
  ELSE LET r == AddStores(st, Mul(H, -1))
       IN Outcome(r.self, AStore(H), r.result, r.returned)

\* LinearCombination.__sub__ with a Tensor or Observable: self + (-1 * H)
SubObs(st, o) ==
  LET r == AddStores(st, ObsMul(o, -1))
  IN Outcome(r.self, AnObs(o), r.result, r.returned)

\* Wires.shared_wires([self.wires, H.wires])
SharedWires(a, b) == Range(a) \cap Range(b)

\* the product of two coefficients, the left one a whole multiple of 1.0
Times(a, b) == (a \div One) * b

\* qml.math.kron of the two coefficient vectors
Kron(c1, c2) ==
  [k \in 1..(Len(c1) * Len(c2)) |->
     Times(c1[((k - 1) \div Len(c2)) + 1], c2[((k - 1) % Len(c2)) + 1])]

\* [Tensor(t[0], t[1]) for t in itertools.product(ops1, ops2)]
ProductTerms(o1, o2) ==
  [k \in 1..(Len(o1) * Len(o2)) |->
     o1[((k - 1) \div Len(o2)) + 1] \o o2[((k - 1) % Len(o2)) + 1]]

\* __matmul__ without the test of the wires
MatmulStoresNoWireTest(st, H) ==
  DotOutcome(st, AStore(H), Kron(st.coeffs, H.coeffs), ProductTerms(st.ops, H.ops),
             "fresh", TRUE)

\* LinearCombination.__matmul__ with a LinearCombination
MatmulStores(st, H) ==
  IF SharedWires(st.wires, H.wires) # {}
  THEN Outcome(st, AStore(H), ValueError, NoReturn)
  ELSE DotOutcome(st, AStore(H), Kron(st.coeffs, H.coeffs), ProductTerms(st.ops, H.ops),
                  "fresh", TRUE)

\* LinearCombination.__matmul__ with a Tensor or Observable
MatmulObs(st, o) ==
  DotOutcome(st, AnObs(o), st.coeffs, [i \in 1..Len(st.ops) |-> st.ops[i] \o o],
             "fresh", TRUE)

ArithVocab == {X0, X0I1, Z0}

\* the stores handed to an operator as its right operand
ArithStores == ArgStores \cup {Construct(<<One, One>>, <<Z2, Z2>>, FALSE)}

\* the observables handed to an operator as its right operand
ArithObs == {X0, Z2}

\* the numbers and other objects handed to an operator as its right operand
ArithScalars ==
  { [type |-> "int", val |-> 0], [type |-> "int", val |-> -1], [type |-> "int", val |-> 2],
    [type |-> "float", val |-> 0], [type |-> "float", val |-> 2],
    [type |-> "complex", val |-> 2], [type |-> "str", val |-> 0] }

\* a store as construction, possibly followed by simplify(), leaves it, and a right
\* operand
ArithInit ==
  \E n \in 1..MaxArithTerms :
    \E cs \in [1..n -> CoeffVals], os \in [1..n -> ArithVocab],
       gtype \in {None, "qwc"}, simplified \in BOOLEAN :
      /\ LET st == Construct(cs, os, FALSE) IN
         IF simplified
         THEN /\ coeffs = Simplify(st).coeffs
              /\ ops = Simplify(st).ops
              /\ wires = Simplify(st).wires
              /\ grouping = NoGrouping
              /\ gsrc = "none"
         ELSE /\ coeffs = st.coeffs
              /\ ops = st.ops
              /\ wires = st.wires
              /\ IF gtype = None
                 THEN grouping = NoGrouping /\ gsrc = "none"
                 ELSE /\ \E g \in GroupingResults(st.ops, gtype) : grouping = Grouping(g)
                      /\ gsrc = "computed"
      /\ lastOp = "init"
      /\ hist = <<>>
      /\ result = None
      /\ returned = NoReturn
      /\ \/ \E H \in ArithStores : other = AStore(H) /\ arg = 0
         \/ \E o \in ArithObs : other = AnObs(o) /\ arg = 0
         \/ \E a \in ArithScalars : other = AScalar(a.type) /\ arg = a.val

\* the operator has run: its outcome is the new state, the left operand as it was
\* is kept in hist
Apply(o, name) ==
  /\ lastOp = "init"
  /\ coeffs' = o.self.coeffs
  /\ ops' = o.self.ops
  /\ wires' = o.self.wires
  /\ grouping' = o.self.grouping
  /\ other' = o.other
  /\ result' = o.result
  /\ returned' = o.returned
  /\ lastOp' = name
  /\ hist' = <<Self>>
  /\ UNCHANGED <<gsrc, arg>>

ArithAddStore == other.kind = "store" /\ Apply(AddStores(Self, other.store), "add")

ArithAddObs == other.kind = "obs" /\ Apply(AddObs(Self, other.obs), "add")

ArithAddScalar == other.kind = "scalar" /\ Apply(AddScalar(Self, other.type, arg), "add")

\* a + S: __radd__ is __add__
ArithRAddScalar == other.kind = "scalar" /\ Apply(AddScalar(Self, other.type, arg), "radd")

\* S += a: __iadd__ with a number or another object
ArithIAddScalar == other.kind = "scalar" /\ Apply(AddScalar(Self, other.type, arg), "iadd")

ArithSubStore == other.kind = "store" /\ Apply(SubStores(Self, other.store), "sub")

ArithSubObs == other.kind = "obs" /\ Apply(SubObs(Self, other.obs), "sub")

ArithSubNotImplemented ==
  other.kind = "scalar" /\ Apply(Outcome(Self, other, NotImplemented, NoReturn), "sub")

ArithMul == other.kind = "scalar" /\ Apply(MulScalar(Self, other.type, arg), "mul")

\* a * S: __rmul__ is __mul__
ArithRMul == other.kind = "scalar" /\ Apply(MulScalar(Self, other.type, arg), "rmul")

ArithIMul == other.kind = "scalar" /\ Apply(IMulScalar(Self, other.type, arg), "imul")

ArithMatmulStore == other.kind = "store" /\ Apply(MatmulStores(Self, other.store), "matmul")

ArithMatmulObs == other.kind = "obs" /\ Apply(MatmulObs(Self, other.obs), "matmul")

ArithMatmulNotImplemented ==
  other.kind = "scalar" /\ Apply(Outcome(Self, other, NotImplemented, NoReturn), "matmul")

\* LinearCombination(S.coeffs, S.ops, simplify=True): a new store from the terms of S
ArithConstruct ==
  Apply(IF ConstructRaises(coeffs, ops, TRUE)
        THEN Outcome(Self, other, IndexError, NoReturn)
        ELSE Outcome(Self, other, "store", Returned(Construct(coeffs, ops, TRUE), "fresh")),
        "construct")

\* R += O on the returned store R: the observable is appended to the list that is
\* R._ops, then R is simplified; hist keeps R as it was
ResultIAddObs ==
  /\ Len(hist) = 1
  /\ result = "store"
  /\ \E o \in ArgObs :
       LET st == ExtendList(Self, returned.opsList, <<o>>) IN
       /\ coeffs' = st.coeffs
       /\ ops' = st.ops
       /\ wires' = st.wires
       /\ grouping' = st.grouping
       /\ other' = ExtendOther(other, returned.opsList, <<o>>)
       /\ returned' = Returned(IAddObsTo(returned.store, o), "fresh")
  /\ hist' = Append(hist, returned.store)
  /\ UNCHANGED <<gsrc, lastOp, arg, result>>

\* R += O when the operator returned its left operand itself
SelfIAddObs ==
  /\ Len(hist) = 1
  /\ result = "self"
  /\ \E o \in ArgObs :
       LET st == IAddObsTo(Self, o) IN
       /\ coeffs' = st.coeffs
       /\ ops' = st.ops
       /\ wires' = st.wires
       /\ grouping' = st.grouping
  /\ hist' = Append(hist, Self)
  /\ UNCHANGED <<gsrc, lastOp, arg, other, result, returned>>

ArithNext ==
  \/ ArithConstruct
  \/ ArithAddStore
  \/ ArithAddObs
  \/ ArithAddScalar
  \/ ArithRAddScalar
  \/ ArithIAddScalar
  \/ ArithSubStore
  \/ ArithSubObs
  \/ ArithSubNotImplemented
  \/ ArithMul
  \/ ArithRMul
  \/ ArithIMul
  \/ ArithMatmulStore
  \/ ArithMatmulObs
  \/ ArithMatmulNotImplemented
  \/ ResultIAddObs
  \/ SelfIAddObs

SpecArith == ArithInit /\ [][ArithNext]_vars

\* the terms a coefficient list and an operand list simplify to
SimplifiedTerms(cs, os) == [coeffs |-> SimplifyTerms(cs, os).coeffs, ops |-> SimplifyTerms(cs, os).ops]

TermsOf(st) == [coeffs |-> st.coeffs, ops |-> st.ops]

NoEqualOperands(st) ==
  \A i, j \in 1..Len(st.ops) : i # j => ~TensorCompare(st.ops[i], st.ops[j])

Scaled(cs, a) == [i \in 1..Len(cs) |-> a * cs[i]]

\* C13: S + T returns a store whose terms are simplify applied to the terms of S
\* followed by the terms of T; S + O returns simplify applied to the terms of S
\* followed by the term (1.0, O).
C13_Original ==
  (lastOp = "add" /\ Len(hist) = 1 /\ other.kind \in {"store", "obs"}) =>
    /\ result = "store"
    /\ returned.kind = "store"
    /\ TermsOf(returned.store) =
         IF other.kind = "store"
         THEN SimplifiedTerms(hist[1].coeffs \o other.store.coeffs, hist[1].ops \o other.store.ops)
         ELSE SimplifiedTerms(Append(hist[1].coeffs, One), Append(hist[1].ops, other.obs))

\* C14: S + 0, 0 + S and S += 0 return S itself, with coefficients, operands,
\* wires and grouping cache as they were.
C14_ZeroIsIdentity ==
  [][(lastOp' \in {"add", "radd", "iadd"} /\ Len(hist') = 1
        /\ other.kind = "scalar" /\ IsNumber(other.type) /\ arg = 0)
       => /\ result' = "self"
          /\ returned' = NoReturn
          /\ coeffs' = coeffs /\ ops' = ops /\ wires' = wires /\ grouping' = grouping]_vars

C14_Witness ==
  /\ lastOp = "radd"
  /\ result = "self"
  /\ Len(hist) = 1
  /\ grouping.present
  /\ Len(ops) = 2
  /\ TensorCompare(ops[1], ops[2])

\* C15: add, subtract, scale by a real number and tensor product return a store
\* in which no two terms have structurally equal operands.
C15_Original ==
  (lastOp \in {"add", "sub", "mul", "rmul", "matmul"} /\ Len(hist) = 1 /\ result = "store")
    => NoEqualOperands(returned.store)

\* C16: add, subtract, scale and tensor product with a right operand other than
\* the literal zero leave both operands as they were and return a store whose
\* operand list is a list of its own; an in-place addition to the returned store
\* changes neither operand.
C16_InputsNotMutated ==
  /\ [][(lastOp' \in {"add", "radd", "sub", "mul", "rmul", "matmul"} /\ Len(hist') = 1
           /\ result' # "self")
          => /\ coeffs' = coeffs /\ ops' = ops /\ wires' = wires /\ grouping' = grouping
             /\ other' = other
             /\ returned'.kind = "store" => returned'.opsList = "fresh"]_vars
  /\ [][(Len(hist) = 1 /\ Len(hist') = 2 /\ result = "store")
          => /\ coeffs' = coeffs /\ ops' = ops /\ wires' = wires /\ grouping' = grouping
             /\ other' = other]_vars

C16_Witness ==
  /\ lastOp = "mul"
  /\ Len(hist) = 2
  /\ result = "store"
  /\ Len(ops) = 2
  /\ grouping.present
  /\ TermsOf(returned.store) # TermsOf(hist[2])

\* C17: S * a, a * S and S *= a with a plain int or float a give term i the
\* coefficient a * c_i and the operand of term i of S, in the same order; with any
\* other a they return NotImplemented and leave S as it was.
C17_Original ==
  (lastOp \in {"mul", "rmul", "imul"} /\ Len(hist) = 1) =>
    IF IsIntOrFloat(other.type)
    THEN IF lastOp = "imul"
         THEN coeffs = Scaled(hist[1].coeffs, arg) /\ ops = hist[1].ops
         ELSE /\ result = "store"
              /\ returned.kind = "store"
              /\ returned.store.coeffs = Scaled(hist[1].coeffs, arg)
              /\ returned.store.ops = hist[1].ops
    ELSE result = NotImplemented /\ Self = hist[1]

\* C18: S @ T for two stores raises ValueError exactly when the wires of S and of
\* T share a wire; then S and T are as they were and no store is returned.
C18_SharedWiresRaise ==
  [][(lastOp' = "matmul" /\ other.kind = "store")
       => /\ result' = ValueError <=> Range(wires) \cap Range(other.store.wires) # {}
          /\ result' = ValueError =>
               /\ coeffs' = coeffs /\ ops' = ops /\ wires' = wires /\ grouping' = grouping
               /\ other' = other
               /\ returned' = NoReturn]_vars

C18_Witness ==
  /\ lastOp = "matmul"
  /\ result = ValueError
  /\ other.kind = "store"
  /\ Len(ops) = 2
  /\ Len(other.store.ops) = 2

\* every term of the store cancels against another one
AllCancel(cs, os) == Len(os) > 0 /\ SimplifyTerms(cs, os).ops = <<>>

\* C20: when simplification removes every term the operation does not raise and
\* yields a store with no coefficient and no operand; stated for construction
\* with the simplify flag from terms that all cancel.
C20_Original ==
  (lastOp = "construct" /\ AllCancel(hist[1].coeffs, hist[1].ops))
    => /\ result = "store"
       /\ returned.kind = "store"
       /\ returned.store.coeffs = <<>>
       /\ returned.store.ops = <<>>

(************************* matrix and sparse_matrix *************************)
\* most terms of a store whose matrix is asked for
MaxMatrixTerms == 2

\* a two-wire operand that is no product of single-wire factors
H01 == <<[name |-> "Hermitian", wires |-> <<0, 1>>]>>

MatrixVocab == {X0, Y1, X0Y1, X0I1, H01}

WireLabels == {0, 1, 2}

\* the wire_order argument: None, or a list of distinct wire labels
NoWireOrder == [kind |-> "wire_order", given |-> FALSE, order |-> <<>>]
AWireOrder(ws) == [kind |-> "wire_order", given |-> TRUE, order |-> ws]

WireOrders ==
  {NoWireOrder} \cup
  {AWireOrder(ws) : ws \in {s \in SeqsUpTo(WireLabels, Cardinality(WireLabels)) :
                              \A i, j \in 1..Len(s) : i # j => s[i] # s[j]}}

TypeError == "TypeError"

\* a matrix of dimension 2^n: per term the coefficient and the blocks whose
\* Kronecker product it is
AMatrix(n, terms) == [kind |-> "matrix", n |-> n, terms |-> terms]

Eye(count) == [kind |-> "eye", wires |-> count, name |-> "I"]
ObsBlock(f) == [kind |-> "obs", wires |-> 1, name |-> f.name]

\* WireIndex answering with the first factor for every wire
WireIndexFirst(op, w) == 1

\* the position of wire w in op.wires
WireIndex(op, w) == CHOOSE i \in 1..Len(OpWires(op)) : OpWires(op)[i] = w

\* SparseBlocks with i_count not set back to 0 after an operator block
RECURSIVE SparseBlocksNoReset(_, _, _, _, _)
SparseBlocksNoReset(op, ws, k, icount, mat) ==
  IF k > Len(ws)
  THEN IF icount > 0 THEN Append(mat, Eye(icount)) ELSE mat
  ELSE IF ws[k] \in Range(OpWires(op))
       THEN SparseBlocksNoReset(op, ws, k + 1, icount,
              Append(IF icount > 0 THEN Append(mat, Eye(icount)) ELSE mat,
                     ObsBlock(op[WireIndex(op, ws[k])])))
       ELSE SparseBlocksNoReset(op, ws, k + 1, icount + 1, mat)

\* the walk of sparse_matrix over the wire order for one term: mat after the loop
RECURSIVE SparseBlocks(_, _, _, _, _)
SparseBlocks(op, ws, k, icount, mat) ==
  IF k > Len(ws)
  THEN IF icount > 0 THEN Append(mat, Eye(icount)) ELSE mat
  ELSE IF ws[k] \in Range(OpWires(op))
       THEN SparseBlocks(op, ws, k + 1, 0,
              Append(IF icount > 0 THEN Append(mat, Eye(icount)) ELSE mat,
                     ObsBlock(op[WireIndex(op, ws[k])])))
       ELSE SparseBlocks(op, ws, k + 1, icount + 1, mat)

\* some factor of some term acts on more than one wire
HasMultiWireFactor(st) ==
  \E i \in 1..Len(st.ops) : \E j \in 1..Len(st.ops[i]) : Len(st.ops[i][j].wires) > 1

\* LinearCombination.sparse_matrix
SparseMatrix(st, wo) ==
  LET ws == IF wo.given THEN wo.order ELSE st.wires
  IN IF HasMultiWireFactor(st)
     THEN [result |-> ValueError, matrix |-> NoReturn]
     ELSE IF Len(st.ops) > 0 /\ ws = <<>>
          THEN [result |-> TypeError, matrix |-> NoReturn]
          ELSE [result |-> "matrix",
                matrix |-> AMatrix(Len(ws),
                   [i \in 1..Len(st.ops) |->
                      [coeff |-> st.coeffs[i],
                       blocks |-> SparseBlocks(st.ops[i], ws, 1, 0, <<>>)]])]

\* qml.math.expand_matrix(reduced_mat, sum_wires, wire_order): the matrix on the
\* wires of wire_order; fails when wire_order leaves out one of sum_wires
ExpandMatrix(st, ws) ==
  IF Range(st.wires) \subseteq Range(ws)
  THEN [result |-> "matrix",
        matrix |-> AMatrix(Len(ws),
           [i \in 1..Len(st.ops) |-> [coeff |-> st.coeffs[i], op |-> st.ops[i]]])]
  ELSE [result |-> ValueError, matrix |-> NoReturn]

\* LinearCombination.matrix: wire_order or self.wires, so an empty wire_order
\* stands for self.wires
Matrix(st, wo) ==
  ExpandMatrix(st, IF wo.given /\ wo.order # <<>> THEN wo.order ELSE st.wires)

MatrixInit ==
  \E n \in 1..MaxMatrixTerms :
    \E cs \in [1..n -> CoeffVals], os \in [1..n -> MatrixVocab], wo \in WireOrders :
      LET st == Construct(cs, os, FALSE) IN
      /\ coeffs = st.coeffs
      /\ ops = st.ops
      /\ wires = st.wires
      /\ grouping = NoGrouping
      /\ gsrc = "none"
      /\ lastOp = "init"
      /\ arg = 0
      /\ hist = <<>>
      /\ other = wo
      /\ result = None
      /\ returned = NoReturn

\* S.matrix(wire_order)
MatrixDense ==
  /\ lastOp = "init"
  /\ LET r == Matrix(Self, other) IN result' = r.result /\ returned' = r.matrix
  /\ lastOp' = "matrix"
  /\ UNCHANGED <<coeffs, ops, wires, grouping, gsrc, arg, hist, other>>

\* S.sparse_matrix(wire_order)
MatrixSparse ==
  /\ lastOp = "init"
  /\ LET r == SparseMatrix(Self, other) IN result' = r.result /\ returned' = r.matrix
  /\ lastOp' = "sparse_matrix"
  /\ UNCHANGED <<coeffs, ops, wires, grouping, gsrc, arg, hist, other>>

SpecMatrix == MatrixInit /\ [][MatrixDense \/ MatrixSparse]_vars

\* a wire order with at least one wire was supplied and leaves out a wire the
\* store acts on
OmitsAWire ==
  other.given /\ other.order # <<>> /\ ~(Range(wires) \subseteq Range(other.order))

\* C19: matrix(wire_order) and sparse_matrix(wire_order) raise ValueError and
\* return no matrix whenever the supplied wire order leaves out a wire the store
\* acts on.
C19_Original ==
  (lastOp \in {"matrix", "sparse_matrix"} /\ OmitsAWire)
    => result = ValueError /\ returned = NoReturn

(***************************** compare, errors ******************************)
\* C25: compare called with an argument that is neither a store nor an observable
\* or tensor raises ValueError and leaves the store as it was: coefficients and
\* operands are not simplified and the grouping cache is kept.
C25_CompareErrorFrame ==
  [][lastOp' = "compare_error" =>
       /\ result' = ValueError
       /\ coeffs' = coeffs
       /\ ops' = ops
       /\ wires' = wires
       /\ grouping' = grouping]_vars

\* compare raised on a store that simplify would change and that has a grouping
C25_Witness ==
  /\ lastOp = "compare_error"
  /\ result = ValueError
  /\ grouping.present
  /\ Simplify(Self).ops # ops

(****************************** construction *******************************)
\* a one-wire Hermitian observable: an Observable without a Pauli representation
Herm1 == <<[name |-> "Hermitian", wires |-> <<1>>]>>

\* a gate: an Operator that is no Observable
RX0 == <<[name |-> "RX", wires |-> <<0>>]>>

ObservableNames == {"X", "Y", "Z", "I", "Hermitian"}

PauliNames == {"X", "Y", "Z", "I"}

\* isinstance(obs, Observable)
IsObservable(op) == \A j \in 1..Len(op) : op[j].name \in ObservableNames

\* op.pauli_rep is not None
HasPauliRep(op) == \A j \in 1..Len(op) : op[j].name \in PauliNames

\* the Pauli word of an operand: its non-identity letters by wire
PauliWord(op) == {<<f.wires[1], f.name>> : f \in Range(NonIdentityObs(op))}

\* op.pauli_rep of a Pauli word: the sentence { word : 1.0 }
OpPauliRep(op) == [w \in {PauliWord(op)} |-> One]

\* c * sentence
PauliScale(c, ps) == [w \in DOMAIN ps |-> Times(c, ps[w])]

\* sentence + sentence
PauliAdd(p, q) ==
  [w \in DOMAIN p \cup DOMAIN q |->
     (IF w \in DOMAIN p THEN p[w] ELSE 0) + (IF w \in DOMAIN q THEN q[w] ELSE 0)]

\* sum(items from position i on, start=acc)
RECURSIVE PauliSumFrom(_, _, _, _)
PauliSumFrom(cs, os, i, acc) ==
  IF i > Len(os) THEN acc
  ELSE PauliSumFrom(cs, os, i + 1, PauliAdd(acc, PauliScale(cs[i], OpPauliRep(os[i]))))

\* the Pauli representation of a store: absent (None), or a sentence
NoPauliRep == [kind |-> "pauli_rep", present |-> FALSE, rep |-> <<>>]
APauliRep(ps) == [kind |-> "pauli_rep", present |-> TRUE, rep |-> ps]

\* LinearCombination._build_pauli_rep on a store that holds a term: the sum over
\* every term, started from coeffs[0] * op_pauli_rep[0]
BuildPauliRep(cs, os) ==
  IF \A i \in 1..Len(os) : HasPauliRep(os[i])
  THEN APauliRep(PauliSumFrom(cs, os, 1, PauliScale(cs[1], OpPauliRep(os[1]))))
  ELSE NoPauliRep

\* the error a failed construction raises
AnError(msg) == [kind |-> "error", message |-> msg]

\* the arguments simplify and grouping_type of the constructor
ARequest(simplify, gtype) == [kind |-> "request", simplify |-> simplify, gtype |-> gtype]

ConstructVocab == {X0, X0I1, Y1, Herm1, RX0}

\* the arguments of a constructor call; a grouping is requested for Pauli words only
ConstructInit ==
  \E cs \in SeqsUpTo(CoeffVals, MaxConstructTerms),
     os \in SeqsUpTo(ConstructVocab, MaxConstructTerms),
     simplify \in BOOLEAN, gtype \in GroupingTypes \cup {None} :
    /\ gtype # None => \A i \in 1..Len(os) : HasPauliRep(os[i])
    /\ coeffs = <<>>
    /\ ops = <<>>
    /\ wires = <<>>
    /\ grouping = NoGrouping
    /\ gsrc = "none"
    /\ lastOp = "init"
    /\ arg = 0
    /\ hist = <<[coeffs |-> cs, ops |-> os]>>
    /\ other = ARequest(simplify, gtype)
    /\ result = None
    /\ returned = NoReturn

\* a constructor call that raises: no store comes to be
ConstructFails(err, msg) ==
  /\ lastOp = "init"
  /\ lastOp' = "construct"
  /\ result' = err
  /\ returned' = AnError(msg)
  /\ UNCHANGED <<coeffs, ops, wires, grouping, gsrc, arg, hist, other>>

\* the number of coefficients and of operands differ
InitShapeMismatch ==
  /\ Len(hist[1].coeffs) # Len(hist[1].ops)
  /\ ConstructFails(ValueError, "count")

\* some element of ops is no Observable
InitInvalidOperand ==
  /\ Len(hist[1].coeffs) = Len(hist[1].ops)
  /\ \E i \in 1..Len(hist[1].ops) : ~IsObservable(hist[1].ops[i])
  /\ ConstructFails(ValueError, "ops")

\* both checks passed
InitChecksPass ==
  /\ Len(hist[1].coeffs) = Len(hist[1].ops)
  /\ \A i \in 1..Len(hist[1].ops) : IsObservable(hist[1].ops[i])

\* the store holds no term when _build_pauli_rep is reached
InitIndexError ==
  /\ InitChecksPass
  /\ BuildPauliRepRaises(Construct(hist[1].coeffs, hist[1].ops, other.simplify))
  /\ ConstructFails(IndexError, "list index out of range")

\* InitStore with the grouping computed before the store is simplified
InitStoreGroupsFirst ==
  /\ lastOp = "init"
  /\ InitChecksPass
  /\ LET st == Construct(hist[1].coeffs, hist[1].ops, other.simplify) IN
     /\ ~BuildPauliRepRaises(st)
     /\ coeffs' = st.coeffs
     /\ ops' = st.ops
     /\ wires' = st.wires
     /\ IF other.gtype = None
        THEN grouping' = NoGrouping /\ gsrc' = "none"
        ELSE /\ \E g \in GroupingResults(hist[1].ops, other.gtype) : grouping' = Grouping(g)
             /\ gsrc' = "computed"
     /\ returned' = BuildPauliRep(st.coeffs, st.ops)
  /\ lastOp' = "construct"
  /\ result' = "store"
  /\ UNCHANGED <<arg, hist, other>>

\* LinearCombination.__init__ completing: simplify, then the grouping, then the
\* Pauli representation
InitStore ==
  /\ lastOp = "init"
  /\ InitChecksPass
  /\ LET st == Construct(hist[1].coeffs, hist[1].ops, other.simplify) IN
     /\ ~BuildPauliRepRaises(st)
     /\ coeffs' = st.coeffs
     /\ ops' = st.ops
     /\ wires' = st.wires
     /\ IF other.gtype = None
        THEN grouping' = NoGrouping /\ gsrc' = "none"
        ELSE /\ \E g \in GroupingResults(st.ops, other.gtype) : grouping' = Grouping(g)
             /\ gsrc' = "computed"
     /\ returned' = BuildPauliRep(st.coeffs, st.ops)
  /\ lastOp' = "construct"
  /\ result' = "store"
  /\ UNCHANGED <<arg, hist, other>>

ConstructNext ==
  \/ InitShapeMismatch
  \/ InitInvalidOperand
  \/ InitIndexError
  \/ InitStore

SpecConstruct == ConstructInit /\ [][ConstructNext]_vars

\* the two conditions under which the constructor is said to fail
CountOrOperandError ==
  \/ Len(hist[1].coeffs) # Len(hist[1].ops)
  \/ \E i \in 1..Len(hist[1].ops) : ~IsObservable(hist[1].ops[i])

\* C22: construction fails, creating no store, exactly when the number of
\* coefficients differs from the number of operands or some operand is no valid
\* observable; the count is checked before the operands.
C22_Original ==
  lastOp = "construct" =>
    /\ (result # "store") <=> CountOrOperandError
    /\ Len(hist[1].coeffs) # Len(hist[1].ops) => returned = AnError("count")

\* C23: after construction the grouping cache is present exactly when a grouping
\* was requested; with the simplify flag and a grouping request the store is
\* simplified first and the grouping is computed for the simplified operands, so
\* the cache is present and each of its indices is below the number of
\* simplified terms.
C23_GroupingAfterSimplify ==
  (lastOp = "construct" /\ result = "store") =>
    /\ grouping.present <=> other.gtype # None
    /\ (other.simplify /\ other.gtype # None) =>
         /\ ops = SimplifyTerms(hist[1].coeffs, hist[1].ops).ops
         /\ grouping.present
         /\ IndicesInRange(grouping.groups, Len(ops))
         /\ grouping.groups \in GroupingResults(ops, other.gtype)

\* a store built with both requests whose simplification merged two terms
C23_Witness ==
  /\ lastOp = "construct"
  /\ result = "store"
  /\ other.simplify
  /\ other.gtype # None
  /\ Len(hist[1].ops) = 2
  /\ Len(ops) = 1
  /\ grouping = Grouping(<< <<0>> >>)

\* the sum over all terms of coefficient times the operand's sentence, each term once
PauliSumOnce(cs, os) == PauliSumFrom(cs, os, 1, <<>>)

\* C30: when every operand has a Pauli representation, the representation built
\* at construction is the sum over all terms of coefficient times the operand's
\* representation, each term counted once; when some operand has none, the
\* store's representation is absent.
C30_Original ==
  (lastOp = "construct" /\ result = "store") =>
    IF \A i \in 1..Len(ops) : HasPauliRep(ops[i])
    THEN returned = APauliRep(PauliSumOnce(coeffs, ops))
    ELSE returned = NoPauliRep

(******************************** map_wires *********************************)
\* the dictionary hyperparameters of a store: the operand list under its key "ops"
AHyper(os) == [kind |-> "hyperparameters", ops |-> os]

\* a wire map: a dictionary from old wire labels to new ones
AWireMap(wm) == [kind |-> "wire_map", map |-> wm]

\* wire_map.get(wire, wire)
WireMapGet(wm, w) == IF w \in DOMAIN wm THEN wm[w] ELSE w

\* Operator.map_wires for an operand: every factor's wires renamed
OpMapWires(op, wm) ==
  [j \in 1..Len(op) |->
     [name |-> op[j].name,
      wires |-> [k \in 1..Len(op[j].wires) |-> WireMapGet(wm, op[j].wires[k])]]]

\* LinearCombination.map_wires: the new store, and the operand list that the
\* hyperparameters dictionary, shared by the old and the new store, holds afterwards
MapWires(st, wm) ==
  LET newOps == [i \in 1..Len(st.ops) |-> OpMapWires(st.ops[i], wm)]
      newWires == [i \in 1..Len(st.wires) |-> WireMapGet(wm, st.wires[i])]
  IN [new |-> Store(st.coeffs, newOps, newWires, st.grouping),
      hyper |-> AHyper(newOps)]

MapVocab == {X0, Y1, X0Y1, X0I1}

\* the wire maps that keep the wires of a store distinct
WireMaps(ws) ==
  {wm \in UNION {[D -> WireLabels] : D \in SUBSET WireLabels} :
     \A i, j \in 1..Len(ws) : i # j => WireMapGet(wm, ws[i]) # WireMapGet(wm, ws[j])}

\* a constructed store, its hyperparameters and a wire map
MapWiresInit ==
  \E n \in 1..MaxMapTerms :
    \E cs \in [1..n -> CoeffVals], os \in [1..n -> MapVocab],
       simplify \in BOOLEAN, gtype \in {"qwc", None} :
      /\ ~ConstructRaises(cs, os, simplify)
      /\ LET st == Construct(cs, os, simplify) IN
         /\ coeffs = st.coeffs
         /\ ops = st.ops
         /\ wires = st.wires
         /\ IF gtype = None
            THEN grouping = NoGrouping /\ gsrc = "none"
            ELSE /\ \E g \in GroupingResults(st.ops, gtype) : grouping = Grouping(g)
                 /\ gsrc = "computed"
         /\ other = AHyper(st.ops)
         /\ \E wm \in WireMaps(st.wires) : hist = <<AWireMap(wm)>>
      /\ lastOp = "init"
      /\ arg = 0
      /\ result = None
      /\ returned = NoReturn

\* T = S.map_wires(wire_map)
MapWiresStep ==
  /\ lastOp = "init"
  /\ LET r == MapWires(Self, hist[1].map) IN
     /\ returned' = Returned(r.new, "fresh")
     /\ other' = r.hyper
  /\ lastOp' = "map_wires"
  /\ result' = "store"
  /\ UNCHANGED <<coeffs, ops, wires, grouping, gsrc, arg, hist>>

SpecMapWires == MapWiresInit /\ [][MapWiresStep]_vars

\* C24: in every reachable state of a store, and for the store map_wires returns,
\* the wires attribute is the sorted, duplicate-free union of the wires of the
\* store's current operands.
C24_Original ==
  /\ wires = AllWires(ops)
  /\ returned.kind = "store" => returned.store.wires = AllWires(returned.store.ops)

\* C29: map_wires returns a new store whose operands are the original operands
\* with their wires renamed, and leaves the original as it was: its coefficients,
\* operands, wires, grouping cache and the operand list in its hyperparameters are
\* the same after the call and still are the unmapped operands.
C29_Original ==
  [][lastOp' = "map_wires" =>
       /\ returned'.store.ops = [i \in 1..Len(ops) |-> OpMapWires(ops[i], hist[1].map)]
       /\ coeffs' = coeffs
       /\ ops' = ops
       /\ wires' = wires
       /\ grouping' = grouping
       /\ other' = other
       /\ other'.ops = ops']_vars

(********************* the grouping computation, step by step ***************)
\* observable_groups and the position of the two loops in it: word j of group k
APartition(gtype, groups, k, j) ==
  [kind |-> "partition", gtype |-> gtype, groups |-> groups, k |-> k, j |-> j]

\* the tuple of index tuples collected so far
Indices(v) == [kind |-> "indices", value |-> v]

GroupingVocab == {X0, X0I1, Z0}

\* _compute_grouping_indices(self.ops, grouping_type) after the call of the
\* partitioner and the copy of ops: available_indices = list(range(len(ops)))
GroupingInit ==
  \E n \in 1..MaxGroupingTerms :
    \E os \in [1..n -> GroupingVocab], gtype \in GroupingTypes :
      \E g \in GroupOps(os, gtype) :
        /\ coeffs = [i \in 1..n |-> One]
        /\ ops = os
        /\ wires = AllWires(os)
        /\ grouping = NoGrouping
        /\ gsrc = "none"
        /\ lastOp = "init"
        /\ arg = 0
        /\ hist = <<[ops |-> os, avail |-> [i \in 1..n |-> i - 1], group |-> <<>>]>>
        /\ other = APartition(gtype, g, 1, 1)
        /\ result = None
        /\ returned = Indices(<<>>)

\* one pass of "for pauli_word in partition"
GroupingVisitWord ==
  /\ lastOp # "return"
  /\ other.k <= Len(other.groups)
  /\ other.j <= Len(other.groups[other.k])
  /\ hist' = <<TakeWord(hist[1], other.groups[other.k][other.j])>>
  /\ other' = [other EXCEPT !.j = @ + 1]
  /\ lastOp' = "visit_word"
  /\ UNCHANGED <<coeffs, ops, wires, grouping, gsrc, arg, result, returned>>

\* indices.append(tuple(indices_this_group)) and the start of the next partition
GroupingCloseGroup ==
  /\ lastOp # "return"
  /\ other.k <= Len(other.groups)
  /\ other.j > Len(other.groups[other.k])
  /\ returned' = Indices(Append(returned.value, hist[1].group))
  /\ hist' = <<[hist[1] EXCEPT !.group = <<>>]>>
  /\ other' = [other EXCEPT !.k = @ + 1, !.j = 1]
  /\ lastOp' = "close_group"
  /\ UNCHANGED <<coeffs, ops, wires, grouping, gsrc, arg, result>>

\* return tuple(indices), which compute_grouping stores in the cache
GroupingReturn ==
  /\ lastOp # "return"
  /\ other.k > Len(other.groups)
  /\ grouping' = Grouping(returned.value)
  /\ gsrc' = "computed"
  /\ lastOp' = "return"
  /\ UNCHANGED <<coeffs, ops, wires, arg, hist, other, result, returned>>

GroupingNext ==
  \/ GroupingVisitWord
  \/ GroupingCloseGroup
  \/ GroupingReturn

SpecGrouping == GroupingInit /\ [][GroupingNext]_vars

\* the remaining positions whose operand is identical to the word
Matches(st, word) == {i \in 1..Len(st.ops) : AreIdenticalPauliWords(word, st.ops[i])}

\* the indices emitted so far: the closed groups and the open one
Emitted == Flatten(returned.value) \o hist[1].group

NoRepeat(s) == \A i, j \in 1..Len(s) : i # j => s[i] # s[j]

\* every index of output group k has the operand of a word of partitioner group k
FromOwnGroup(out, k) ==
  \A i \in 1..Len(out) :
    \E j \in 1..Len(other.groups[k]) : AreIdenticalPauliWords(other.groups[k][j], ops[out[i] + 1])

PairwiseCompatible(out) ==
  \A i, j \in 1..Len(out) :
    i # j => Compatible(other.gtype, ops[out[i] + 1], ops[out[j] + 1])

\* C26 as stated: when a group of the partitioner has been worked through, the
\* output group has received every not-yet-consumed original index whose operand
\* is identical to one of the group's words.
C26_Original ==
  lastOp = "close_group" =>
    \A j \in 1..Len(other.groups[other.k - 1]) :
      Matches(hist[1], other.groups[other.k - 1][j]) = {}

\* C26 as amended: each visit of a word emits one index, the lowest not-yet-consumed
\* original index whose operand is identical to the word, and consumes it (none when
\* no such index is left); no original index is emitted twice; every index of
\* output group k has the operand of a word of partitioner group k, so the
\* operands of an output group are pairwise compatible; the result is the
\* tuple the function form computes.
C26_OneIndexPerWord ==
  [][/\ lastOp' = "visit_word" =>
          LET word == other.groups[other.k][other.j]
              m == Matches(hist[1], word)
          IN IF m = {}
             THEN hist' = hist
             ELSE LET first == CHOOSE i \in m : \A x \in m : i <= x IN
                  /\ hist'[1].group = Append(hist[1].group, hist[1].avail[first])
                  /\ \A x \in m : hist[1].avail[first] <= hist[1].avail[x]
                  /\ Range(hist'[1].avail) = Range(hist[1].avail) \ {hist[1].avail[first]}
                  /\ Len(hist'[1].ops) = Len(hist[1].ops) - 1
     /\ NoRepeat(Emitted')
     /\ Range(Emitted') \cap Range(hist'[1].avail) = {}
     /\ \A k \in 1..Len(returned'.value) :
          FromOwnGroup(returned'.value[k], k) /\ PairwiseCompatible(returned'.value[k])
     /\ other'.k <= Len(other'.groups) => FromOwnGroup(hist'[1].group, other'.k)
     /\ lastOp' = "return" =>
          /\ grouping'.groups = ComputeGroupingIndices(ops, other.groups)
          /\ ops' = ops
    ]_vars

\* the same word twice, in two groups of the partitioner: each group got one index
C26_Witness ==
  /\ lastOp = "return"
  /\ Len(ops) = 2
  /\ AreIdenticalPauliWords(ops[1], ops[2])
  /\ Len(other.groups) = 2
  /\ grouping = Grouping(<< <<0>>, <<1>> >>)

(********************* sparse assembly: blocks and values *******************)
\* the wire order a call of matrix or sparse_matrix works with
WiresUsed == IF other.given THEN other.order ELSE wires

\* the supplied or defaulted wire order holds every wire the store acts on
CompleteOrder == WiresUsed # <<>> /\ Range(wires) \subseteq Range(WiresUsed)

\* the letters, one per wire, that a block stands for
BlockLetters(b) == IF b.kind = "eye" THEN [i \in 1..b.wires |-> "I"] ELSE <<b.name>>

\* functools.reduce(kron, mat): the Kronecker product of the blocks, as the
\* string of single-wire letters it is the product of
KronBlocks(blocks) == Flatten([i \in 1..Len(blocks) |-> BlockLetters(blocks[i])])

\* the Kronecker product, in wire order, of the term's factor on each wire it
\* acts on and the identity on every other wire
KronInWireOrder(op, ws) == [k \in 1..Len(ws) |-> PauliAt(op, ws[k])]

RECURSIVE CoeffSum(_, _, _)
CoeffSum(terms, s, i) ==
  IF i > Len(terms) THEN 0
  ELSE (IF terms[i].string = s THEN terms[i].coeff ELSE 0) + CoeffSum(terms, s, i + 1)

\* the sum of scaled Kronecker products as a matrix: products of Pauli letters
\* are linearly independent, so the matrix is the total coefficient of each
\* string, the strings of total zero left out
MatrixSum(terms) ==
  LET S == {terms[i].string : i \in 1..Len(terms)}
  IN [s \in {x \in S : CoeffSum(terms, x, 1) # 0} |-> CoeffSum(terms, s, 1)]

\* the matrix sparse_matrix returned
SparseValue(m) ==
  MatrixSum([i \in 1..Len(m.terms) |->
               [coeff |-> m.terms[i].coeff, string |-> KronBlocks(m.terms[i].blocks)]])

\* the matrix matrix() returned, for the wire order ws
DenseValue(m, ws) ==
  MatrixSum([i \in 1..Len(m.terms) |->
               [coeff |-> m.terms[i].coeff, string |-> KronInWireOrder(m.terms[i].op, ws)]])

\* the sum over all terms of coefficient times the Kronecker product in wire order
ClaimedValue(st, ws) ==
  MatrixSum([i \in 1..Len(st.ops) |->
               [coeff |-> st.coeffs[i], string |-> KronInWireOrder(st.ops[i], ws)]])

\* one flag per wire of the order: TRUE for an operator block, FALSE under an
\* identity block
BlockFlags(blocks) ==
  Flatten([i \in 1..Len(blocks) |->
             IF blocks[i].kind = "eye" THEN [j \in 1..blocks[i].wires |-> FALSE] ELSE <<TRUE>>])

\* C27: for every term and every complete wire order of W wires the block list
\* holds one operator block per wire the term acts on, in wire order, and exactly
\* one identity block of dimension 2^k for each maximal run of k consecutive wires
\* it does not act on, also at the start and at the end; no two identity blocks
\* are adjacent and the block dimensions multiply to 2^W.
C27_BlocksPerRun ==
  (lastOp = "sparse_matrix" /\ CompleteOrder /\ ~HasMultiWireFactor(Self)) =>
    /\ result = "matrix"
    /\ \A i \in 1..Len(ops) :
         LET b == returned.terms[i].blocks
             ws == WiresUsed
             acted == SelectSeq(ws, LAMBDA w : w \in Range(OpWires(ops[i])))
         IN /\ BlockFlags(b) = [k \in 1..Len(ws) |-> ws[k] \in Range(OpWires(ops[i]))]
            /\ \A k \in 1..(Len(b) - 1) : ~(b[k].kind = "eye" /\ b[k + 1].kind = "eye")
            /\ \A k \in 1..Len(b) : b[k].kind = "eye" => b[k].wires >= 1
            /\ [k \in 1..Len(acted) |-> PauliAt(ops[i], acted[k])]
                 = [k \in 1..Len(acted) |-> SelectSeq(b, LAMBDA x : x.kind = "obs")[k].name]
            /\ Len(SelectSeq(b, LAMBDA x : x.kind = "obs")) = Len(acted)
            /\ Len(KronBlocks(b)) = Len(ws)

\* a term on wire 1, assembled for the order 0, 1, 2: an identity block before and
\* one after the operator block
C27_Witness ==
  /\ lastOp = "sparse_matrix"
  /\ result = "matrix"
  /\ other = AWireOrder(<<0, 1, 2>>)
  /\ ops = <<Y1>>
  /\ returned.terms[1].blocks = <<Eye(1), ObsBlock(Y1[1]), Eye(1)>>

\* C21: for a store whose operands are products of single-wire factors on
\* distinct wires and a complete wire order of W wires, sparse_matrix returns the
\* matrix of dimension 2^W that is the sum over the terms of coefficient times the
\* Kronecker product in wire order of the term's factors and identities, and
\* matrix() returns the same for that order.
C21_SparseEqualsDense ==
  (lastOp = "sparse_matrix" /\ CompleteOrder /\ ~HasMultiWireFactor(Self)) =>
    /\ result = "matrix"
    /\ returned.n = Len(WiresUsed)
    /\ SparseValue(returned) = ClaimedValue(Self, WiresUsed)
    /\ Matrix(Self, other).result = "matrix"
    /\ Matrix(Self, other).matrix.n = returned.n
    /\ DenseValue(Matrix(Self, other).matrix, WiresUsed) = SparseValue(returned)

\* two terms with two-wire operands, assembled for a wire order that reverses
\* the store's wires and adds a third
C21_Witness ==
  /\ lastOp = "sparse_matrix"
  /\ result = "matrix"
  /\ other = AWireOrder(<<2, 1, 0>>)
  /\ ops = <<X0Y1, X0I1>>
  /\ DOMAIN SparseValue(returned) = {<<"I", "Y", "X">>, <<"I", "I", "X">>}

(********************* sparse assembly: batched accumulation ****************)
\* the number of term matrices sparse_matrix collects before it sums them
BatchSize == 100

\* the state of the loop over the terms: matrix is the result so far, as the
\* number of times each term's scaled matrix has been added to it; temp_mats is
\* the list of the terms whose matrices wait to be added
ALoop(matrix, temp) == [kind |-> "sparse_loop", matrix |-> matrix, temp_mats |-> temp]

\* matrix += sum(temp_mats)
AddBatch(matrix, temp) ==
  [i \in DOMAIN matrix |-> matrix[i] + Cardinality({k \in 1..Len(temp) : temp[k] = i})]

\* AccumulateTerm with the pending list not cleared after it was summed
AccumulateTermKeepsBatch(loop, i) ==
  LET temp == Append(loop.temp_mats, i)
  IN IF Len(temp) % BatchSize = 0
     THEN ALoop(AddBatch(loop.matrix, temp), temp)
     ELSE ALoop(loop.matrix, temp)

\* the end of the loop body for term i: temp_mats.append(red_mat.tocsr()) and the
\* summing of a full batch
AccumulateTerm(loop, i) ==
  LET temp == Append(loop.temp_mats, i)
  IN IF Len(temp) % BatchSize = 0
     THEN ALoop(AddBatch(loop.matrix, temp), <<>>)
     ELSE ALoop(loop.matrix, temp)

\* a store of n terms at the start of the loop of sparse_matrix
SparseLoopInit ==
  \E n \in 0..MaxBatchTerms :
    /\ coeffs = [i \in 1..n |-> One]
    /\ ops = [i \in 1..n |-> X0]
    /\ wires = IF n = 0 THEN <<>> ELSE <<0>>
    /\ grouping = NoGrouping
    /\ gsrc = "none"
    /\ lastOp = "init"
    /\ arg = 0
    /\ hist = <<>>
    /\ other = NoWireOrder
    /\ result = None
    /\ returned = ALoop([i \in 1..n |-> 0], <<>>)

\* one pass of the loop over the terms; arg counts the terms gone through
SparseLoopTerm ==
  /\ lastOp \in {"init", "term"}
  /\ arg < Len(ops)
  /\ arg' = arg + 1
  /\ returned' = AccumulateTerm(returned, arg + 1)
  /\ lastOp' = "term"
  /\ UNCHANGED <<coeffs, ops, wires, grouping, gsrc, hist, other, result>>

\* the loop is over: matrix += sum(temp_mats); return matrix
SparseLoopReturn ==
  /\ lastOp \in {"init", "term"}
  /\ arg = Len(ops)
  /\ returned' = ALoop(AddBatch(returned.matrix, returned.temp_mats), returned.temp_mats)
  /\ result' = "matrix"
  /\ lastOp' = "sparse_matrix"
  /\ UNCHANGED <<coeffs, ops, wires, grouping, gsrc, arg, hist, other>>

SparseLoopNext ==
  \/ SparseLoopTerm
  \/ SparseLoopReturn

SpecSparseLoop == SparseLoopInit /\ [][SparseLoopNext]_vars

\* C28: with batched accumulation, for every number of terms (below the batch
\* size, equal to it, a multiple of it or not), each term's scaled matrix is
\* added to the result exactly once, the pending batch never holds more than the
\* batch size of matrices, and the returned matrix is the unbatched sum of all
\* term matrices.
C28_BatchedSum ==
  /\ Len(returned.temp_mats) <= BatchSize
  /\ \A i \in DOMAIN returned.matrix : returned.matrix[i] <= 1
  /\ lastOp = "term" =>
       /\ returned.temp_mats =
            [k \in 1..Len(returned.temp_mats) |-> arg - Len(returned.temp_mats) + k]
       /\ returned.matrix =
            [i \in 1..Len(ops) |-> IF i <= arg - Len(returned.temp_mats) THEN 1 ELSE 0]
  /\ lastOp = "sparse_matrix" => returned.matrix = [i \in 1..Len(ops) |-> 1]

\* a store of one and a half batches has been assembled: a full batch was summed
\* inside the loop, the rest at the end
C28_Witness ==
  /\ lastOp = "sparse_matrix"
  /\ Len(ops) = BatchSize + 50
  /\ Len(returned.temp_mats) = 50
  /\ returned.matrix[1] = 1
  /\ returned.matrix[BatchSize + 50] = 1

====
